---- MODULE Spec2Model ----
(***************************************************************************)
(* A model of the A* maze solver: the Maze builder (src/src/maze.rs), the  *)
(* search nodes and their costs (src/src/node.rs) and the search loop of   *)
(* Maze::try_solve over a priority queue keyed by node position.           *)
(*                                                                         *)
(* Positions are <<x, y>> with x the column and y the row, both from 0.    *)
(* An Option is a sequence: None is <<>> and Some(v) is <<v>>.             *)
(* A character is a one-character string; a text is a sequence of them.    *)
(***************************************************************************)
EXTENDS Integers, Sequences, FiniteSets, TLC

VARIABLES
    maze,        \* Maze.maze: the rows, each a sequence of characters
    start,       \* Maze.start: Option<Position>
    end,         \* Maze.end: Option<Position>
    path,        \* Maze.path: Option<sequence of positions>
    start_char,  \* Maze.start_char
    end_char,    \* Maze.end_char
    wall_char,   \* Maze.wall_char
    path_char,   \* Maze.path_char
    separator,   \* Maze.separator
    pc,          \* "idle", "search" (inside try_solve's loop), "panicked", "dropped"
    open,        \* try_solve's local priority queue: entries [item, priority]
    closed,      \* try_solve's local closed set of positions
    current,     \* the node most recently popped from open (None before any pop)
    ret,         \* the most recent call and what it returned
    calls,       \* number of builder calls made on this Maze
    tie,         \* how the queue orders entries of equal priority
    solves,      \* outcomes of the try_solve calls since the last builder call
    solved,      \* whether a try_solve call on this Maze has returned Ok
    loaded,      \* whether set or set_inline has built this Maze's grid
    expanded     \* the nodes popped and expanded so far by the running try_solve

vars == <<maze, start, end, path, start_char, end_char, wall_char, path_char,
          separator, pc, open, closed, current, ret, calls, tie, solves,
          solved, loaded, expanded>>

mazeFields == <<maze, start, end, path, start_char, end_char, wall_char,
                path_char, separator>>

\* ------------------------------------------------------------------ bounds

\* Builder calls (set, set_inline, set_*_char, set_separator) made on one Maze.
MaxCalls == 2

\* Largest column and row index of the wall-free grids the costs are
\* measured on.
MaxCoord == 8

\* ------------------------------------------------------------------ values

None == <<>>

Some(v) == <<v>>

NL == "\n"

Whitespace == {NL, " "}

\* Symbols the set_*_char and set_separator calls are given.
Symbols == {"S", "E", "W", "."}

\* Symbols set_path_char is given.
PathSymbols == {"+"}

\* Contents of the text files the Maze is loaded from.
Files ==
    [ diag3   |-> <<"S", ".", ".", NL, ".", ".", ".", NL, ".", ".", "E">>,
      detour  |-> <<"S", ".", ".", ".", NL, ".", ".", "W", ".", NL,
                    "W", "W", "W", "E">>,
      fork    |-> <<"S", ".", ".", ".", ".", NL, ".", "W", ".", "W", ".", NL,
                    ".", ".", "W", "W", "E">>,
      rebound |-> <<"W", "E", "W", "W", "W", NL, ".", "W", "W", "S", "W", NL,
                    "W", ".", ".", ".", ".", NL, "W", "W", "W", ".", "W">>,
      blocked |-> <<"S", "W", "E">>,
      corner  |-> <<"S", "W", NL, "W", "E">>,
      dups    |-> <<".", "S", "E", NL, "S", ".", "E", NL>>,
      nostart |-> <<"W", ".", "E">>,
      endonly |-> <<"E">>,
      inline  |-> <<"S", ".", "\\", ".", "E", NL>>,
      ragged  |-> <<"S", ".", NL, ".", NL, ".", "E">>,
      empty   |-> <<>> ]

FileNames == DOMAIN Files

\* How PriorityQueue::pop chooses among entries of equal priority. The queue
\* is a binary heap: the choice is a function of the queue's contents, fixed
\* by the heap's layout. "any" leaves the choice open; "first" and "last"
\* fix it by insertion order.
TiePolicies == {"any", "first", "last"}

\* ------------------------------------------------------------------ parsing

\* str::split: the pieces of text between the characters in seps; an empty
\* text gives one empty piece.
RECURSIVE Split(_, _)
Split(text, seps) ==
    IF text = <<>> THEN << <<>> >>
    ELSE LET rest == Split(Tail(text), seps)
         IN  IF Head(text) \in seps
             THEN << <<>> >> \o rest
             ELSE << <<Head(text)>> \o Head(rest) >> \o Tail(rest)

\* str::split_whitespace: the non-empty pieces between whitespace.
split_whitespace(text) ==
    SelectSeq(Split(text, Whitespace), LAMBDA piece : piece # <<>>)

RECURSIVE trim_start(_)
trim_start(text) ==
    IF text # <<>> /\ Head(text) \in Whitespace
    THEN trim_start(Tail(text)) ELSE text

RECURSIVE trim_end(_)
trim_end(text) ==
    IF text # <<>> /\ text[Len(text)] \in Whitespace
    THEN trim_end(SubSeq(text, 1, Len(text) - 1)) ELSE text

\* str::trim
trim(text) == trim_end(trim_start(text))

\* The grid set_inline builds from a file's text.
parse_inline(text, sep) == Split(trim(text), {sep})

\* The grid set builds from a file's text.
parse_lines(text) == split_whitespace(text)

\* ------------------------------------------------------------------ Maze helpers

\* row.iter().enumerate().find(..): the first column of row holding ch.
RECURSIVE find_in_row(_, _, _)
find_in_row(row, ch, i) ==
    IF i > Len(row) THEN None
    ELSE IF row[i] = ch THEN Some(i - 1)
    ELSE find_in_row(row, ch, i + 1)

\* scan_rows with the rows taken from the last one up.
RECURSIVE scan_rows_last(_, _, _)
scan_rows_last(grid, ch, i) ==
    IF i > Len(grid) THEN None
    ELSE LET hit == find_in_row(grid[Len(grid) + 1 - i], ch, 1)
         IN  IF hit # None THEN Some(<<hit[1], Len(grid) - i>>)
             ELSE scan_rows_last(grid, ch, i + 1)

\* The loop of calculate_start / calculate_end over the rows from row i on.
RECURSIVE scan_rows(_, _, _)
scan_rows(grid, ch, i) ==
    IF i > Len(grid) THEN None
    ELSE LET hit == find_in_row(grid[i], ch, 1)
         IN  IF hit # None THEN Some(<<hit[1], i - 1>>)
             ELSE scan_rows(grid, ch, i + 1)

\* calculate_start: the new value of Maze.start.
calculate_start(grid, ch, old) ==
    LET found == scan_rows(grid, ch, 1)
    IN  IF found # None THEN found ELSE old

\* calculate_end: the new value of Maze.end.
calculate_end(grid, ch, old) ==
    LET found == scan_rows(grid, ch, 1)
    IN  IF found # None THEN found ELSE old

\* are_chars_invalid without the comparison of wall and separator.
are_chars_invalid_partial ==
    \/ end_char = start_char
    \/ start_char = separator
    \/ end_char = separator
    \/ wall_char = start_char
    \/ wall_char = end_char

are_chars_invalid ==
    \/ end_char = start_char
    \/ start_char = separator
    \/ end_char = separator
    \/ wall_char = separator
    \/ wall_char = start_char
    \/ wall_char = end_char

\* ------------------------------------------------------------------ Node

\* (c as f64).sqrt() as usize: the integer part of the square root. For the
\* sums the grids here give, the f64 holds c exactly and its rounded square
\* root has the same integer part as the exact one.
isqrt(c) == CHOOSE r \in 0..c : r * r <= c /\ (r + 1) * (r + 1) > c

Abs(n) == IF n < 0 THEN -n ELSE n

\* heuristic with the square root rounded to the nearest integer.
heuristic_rounded(position, goal) ==
    LET a == Abs(goal[1] - position[1]) * 10
        b == Abs(goal[2] - position[2]) * 10
        r == isqrt(a * a + b * b)
    IN  IF a * a + b * b - r * r > r THEN r + 1 ELSE r

\* heuristic as the cost of the diagonal steps and the straight steps left.
heuristic_octile(position, goal) ==
    LET dx == Abs(goal[1] - position[1])
        dy == Abs(goal[2] - position[2])
    IN  IF dx < dy THEN 14 * dx + 10 * (dy - dx) ELSE 14 * dy + 10 * (dx - dy)

heuristic(position, goal) ==
    LET a == Abs(goal[1] - position[1]) * 10
        b == Abs(goal[2] - position[2]) * 10
    IN  isqrt(a * a + b * b)

\* g_cost that charges a diagonal step like a straight one.
g_cost_uniform(position, prev) == prev.g_cost + 10

\* g_cost that looks for the position among two of the four diagonal ones.
g_cost_partial(position, prev) ==
    LET px == prev.position[1]
        py == prev.position[2]
        diagonal_positions == { <<px - 1, py - 1>>, <<px - 1, py + 1>> }
    IN  IF position \in diagonal_positions
        THEN prev.g_cost + 14
        ELSE prev.g_cost + 10

g_cost(position, prev) ==
    LET px == prev.position[1]
        py == prev.position[2]
        diagonal_positions == { <<px - 1, py - 1>>, <<px - 1, py + 1>>,
                                <<px + 1, py - 1>>, <<px + 1, py + 1>> }
    IN  IF position \in diagonal_positions
        THEN prev.g_cost + 14
        ELSE prev.g_cost + 10

f_cost(node) == node.g_cost + node.h_cost

\* lower_cost with the comparison of the f_cost turned round.
lower_cost_reversed(self, neighbour) ==
    \/ f_cost(self) > f_cost(neighbour)
    \/ (self.h_cost < neighbour.h_cost /\ f_cost(self) = f_cost(neighbour))

lower_cost(self, neighbour) ==
    \/ f_cost(self) < f_cost(neighbour)
    \/ (self.h_cost < neighbour.h_cost /\ f_cost(self) = f_cost(neighbour))

\* Node::new
NewNode(position, previous, goal) ==
    [ position |-> position,
      g_cost   |-> g_cost(position, previous),
      h_cost   |-> heuristic(position, goal),
      previous |-> None ]

\* Node::is_valid, with the conjuncts evaluated left to right: "panic" when
\* an index is out of range (x_len on a grid without rows, or a row shorter
\* than the first one).
is_valid(x, y, grid, wall) ==
    IF grid = <<>> THEN "panic"
    ELSE IF ~(x < Len(grid[1]) /\ x >= 0 /\ y < Len(grid) /\ y >= 0)
    THEN "false"
    ELSE IF x >= Len(grid[y + 1]) THEN "panic"
    ELSE IF grid[y + 1][x + 1] # wall THEN "true"
    ELSE "false"

offset_x == <<-1, -1, 0, 1, 1, 1, 0, -1>>

offset_y == <<0, -1, -1, -1, 0, 1, 1, 1>>

\* neighbour_check that rejects the four diagonal offsets.
neighbour_check_orthogonal(node, i, grid, wall) ==
    IF offset_x[i] # 0 /\ offset_y[i] # 0 THEN "false"
    ELSE is_valid(node.position[1] + offset_x[i],
                  node.position[2] + offset_y[i], grid, wall)

neighbour_check(node, i, grid, wall) ==
    is_valid(node.position[1] + offset_x[i], node.position[2] + offset_y[i],
             grid, wall)

\* Whether Node::neighbours panics on an index.
neighbours_panics(node, grid, wall) ==
    \E i \in 1..8 : neighbour_check(node, i, grid, wall) = "panic"

RECURSIVE neighbours_from(_, _, _, _, _)
neighbours_from(node, i, grid, wall, goal) ==
    IF i > 8 THEN <<>>
    ELSE LET position == <<node.position[1] + offset_x[i],
                           node.position[2] + offset_y[i]>>
             rest == neighbours_from(node, i + 1, grid, wall, goal)
         IN  IF neighbour_check(node, i, grid, wall) = "true"
             THEN <<NewNode(position, node, goal)>> \o rest
             ELSE rest

\* Node::neighbours
neighbours(node, grid, wall, goal) == neighbours_from(node, 1, grid, wall, goal)

\* ------------------------------------------------------------------ queue

\* PriorityQueue::get: the index of the entry whose item equals node (Node's
\* equality compares positions only), 0 when there is none.
queue_get(q, node) ==
    IF \E i \in 1..Len(q) : q[i].item.position = node.position
    THEN CHOOSE i \in 1..Len(q) : q[i].item.position = node.position
    ELSE 0

\* queue_push that adds the pair whether or not an equal item is queued.
queue_push_append(q, node, priority) ==
    Append(q, [item |-> node, priority |-> priority])

\* PriorityQueue::push: an entry for an equal item keeps its item and takes
\* the new priority; otherwise the pair is added.
queue_push(q, node, priority) ==
    LET i == queue_get(q, node)
    IN  IF i # 0 THEN [q EXCEPT ![i].priority = priority]
        ELSE Append(q, [item |-> node, priority |-> priority])

\* Priority::cmp reverses the order of the f_cost it wraps, so the greatest
\* Priority is the smallest number.
is_greatest(q, i) == \A j \in 1..Len(q) : q[i].priority <= q[j].priority

\* pop_choices with the order among equal priorities left open under every
\* policy.
pop_choices_any(q, t) == {i \in 1..Len(q) : is_greatest(q, i)}

\* The entries PriorityQueue::pop may return under tie policy t.
pop_choices(q, t) ==
    LET best == {i \in 1..Len(q) : is_greatest(q, i)}
    IN  CASE t = "first" -> {i \in best : \A j \in best : i <= j}
          [] t = "last"  -> {i \in best : \A j \in best : i >= j}
          [] OTHER       -> best

queue_remove(q, i) == SubSeq(q, 1, i - 1) \o SubSeq(q, i + 1, Len(q))

\* ------------------------------------------------------------------ search

\* relax without the test of the closed set.
RECURSIVE relax_reopen(_, _, _, _)
relax_reopen(q, cl, cur, nbs) ==
    IF nbs = <<>> THEN q
    ELSE LET neighbour == Head(nbs)
             f == f_cost(neighbour)
             i == queue_get(q, neighbour)
             linked == [neighbour EXCEPT !.previous = Some(cur)]
             q2 == IF i # 0
                   THEN IF lower_cost(q[i].item, neighbour) THEN q
                        ELSE queue_push(q, linked, f)
                   ELSE queue_push(q, linked, f)
         IN  CHOOSE r \in {relax_reopen(v, cl, cur, t) : v \in {q2}, t \in {Tail(nbs)}} :
                 TRUE

\* relax that queues the neighbours without their link to the popped node.
RECURSIVE relax_unlinked(_, _, _, _)
relax_unlinked(q, cl, cur, nbs) ==
    IF nbs = <<>> THEN q
    ELSE LET neighbour == Head(nbs)
             f == f_cost(neighbour)
             i == queue_get(q, neighbour)
             q2 == IF neighbour.position \in cl THEN q
                   ELSE IF i # 0
                   THEN IF lower_cost(q[i].item, neighbour) THEN q
                        ELSE queue_push(q, neighbour, f)
                   ELSE queue_push(q, neighbour, f)
         IN  CHOOSE r \in {relax_unlinked(v, cl, cur, t) : v \in {q2}, t \in {Tail(nbs)}} :
                 TRUE

\* The loop over the neighbours in try_solve: the queue after the
\* neighbours nbs have been handled in order, each on the queue the one
\* before it left.
RECURSIVE relax(_, _, _, _)
relax(q, cl, cur, nbs) ==
    IF nbs = <<>> THEN q
    ELSE LET neighbour == Head(nbs)
             f == f_cost(neighbour)
             i == queue_get(q, neighbour)
             linked == [neighbour EXCEPT !.previous = Some(cur)]
             q2 == IF neighbour.position \in cl THEN q
                   ELSE IF i # 0
                   THEN IF lower_cost(q[i].item, neighbour) THEN q
                        ELSE queue_push(q, linked, f)
                   ELSE queue_push(q, linked, f)
         IN  CHOOSE r \in {relax(v, cl, cur, t) : v \in {q2}, t \in {Tail(nbs)}} :
                 TRUE

\* chain without the position of the node that has no previous link.
RECURSIVE chain_after_start(_)
chain_after_start(node) ==
    IF node.previous = None THEN <<>>
    ELSE chain_after_start(node.previous[1]) \o <<node.position>>

\* chain that records the position of the node without a previous link twice.
RECURSIVE chain_start_twice(_)
chain_start_twice(node) ==
    IF node.previous = None THEN <<node.position, node.position>>
    ELSE chain_start_twice(node.previous[1]) \o <<node.position>>

\* The positions from node back along the previous links, first link first.
RECURSIVE chain(_)
chain(node) ==
    IF node.previous = None THEN <<node.position>>
    ELSE chain(node.previous[1]) \o <<node.position>>

\* start_node with the cost of the start position left at 0 on both sides.
start_node_zero(s, e) ==
    [ position |-> s, g_cost |-> 0, h_cost |-> 0, previous |-> None ]

start_node(s, e) ==
    [ position |-> s, g_cost |-> 0, h_cost |-> heuristic(s, e), previous |-> None ]

Returned(op, res, val) == [op |-> op, res |-> res, val |-> val]

\* The last two outcomes of try_solve since the last builder call.
Record(outcome) ==
    IF solves = <<>> THEN <<outcome>> ELSE <<solves[Len(solves)], outcome>>

\* ------------------------------------------------------------------ Init

\* Maze::new
Init ==
    /\ maze = << <<>> >>
    /\ start = None
    /\ end = None
    /\ path = None
    /\ start_char = "S"
    /\ end_char = "E"
    /\ wall_char = "W"
    /\ path_char = "X"
    /\ separator = "\\"
    /\ pc = "idle"
    /\ open = <<>>
    /\ closed = {}
    /\ current = None
    /\ ret = Returned("new", "Ok", <<>>)
    /\ calls = 0
    /\ tie \in TiePolicies
    /\ solves = <<>>
    /\ solved = FALSE
    /\ loaded = FALSE
    /\ expanded = <<>>

Builder == pc = "idle" /\ calls < MaxCalls

\* ------------------------------------------------------------------ builders

set_inline(file) ==
    /\ Builder
    /\ LET grid == parse_inline(Files[file], separator)
       IN  /\ maze' = grid
           /\ start' = calculate_start(grid, start_char, start)
           /\ end' = calculate_end(grid, end_char, end)
    /\ ret' = Returned("set_inline", "Ok", <<>>)
    /\ calls' = calls + 1
    /\ solves' = <<>>
    /\ loaded' = TRUE
    /\ UNCHANGED <<path, start_char, end_char, wall_char, path_char, separator,
                   pc, open, closed, current, tie, solved, expanded>>

set(file) ==
    /\ Builder
    /\ LET grid == parse_lines(Files[file])
       IN  /\ maze' = grid
           /\ start' = calculate_start(grid, start_char, start)
           /\ end' = calculate_end(grid, end_char, end)
    /\ ret' = Returned("set", "Ok", <<>>)
    /\ calls' = calls + 1
    /\ solves' = <<>>
    /\ loaded' = TRUE
    /\ UNCHANGED <<path, start_char, end_char, wall_char, path_char, separator,
                   pc, open, closed, current, tie, solved, expanded>>

\* set or set_inline on a path that cannot be read: the Maze is consumed.
set_invalid_path(op) ==
    /\ Builder
    /\ pc' = "dropped"
    /\ ret' = Returned(op, "InvalidFilePath", <<>>)
    /\ calls' = calls + 1
    /\ solves' = <<>>
    /\ UNCHANGED <<mazeFields, open, closed, current, tie, solved,
                   loaded, expanded>>

set_walls_char(symbol) ==
    /\ Builder
    /\ wall_char' = symbol
    /\ ret' = Returned("set_walls_char", "Ok", <<>>)
    /\ calls' = calls + 1
    /\ solves' = <<>>
    /\ UNCHANGED <<maze, start, end, path, start_char, end_char, path_char,
                   separator, pc, open, closed, current, tie, solved,
                   loaded, expanded>>

set_start_char(symbol) ==
    /\ Builder
    /\ start_char' = symbol
    /\ start' = calculate_start(maze, symbol, start)
    /\ ret' = Returned("set_start_char", "Ok", <<>>)
    /\ calls' = calls + 1
    /\ solves' = <<>>
    /\ UNCHANGED <<maze, end, path, end_char, wall_char, path_char, separator,
                   pc, open, closed, current, tie, solved,
                   loaded, expanded>>

set_end_char(symbol) ==
    /\ Builder
    /\ end_char' = symbol
    /\ end' = calculate_end(maze, symbol, end)
    /\ ret' = Returned("set_end_char", "Ok", <<>>)
    /\ calls' = calls + 1
    /\ solves' = <<>>
    /\ UNCHANGED <<maze, start, path, start_char, wall_char, path_char,
                   separator, pc, open, closed, current, tie, solved,
                   loaded, expanded>>

set_path_char(symbol) ==
    /\ Builder
    /\ path_char' = symbol
    /\ ret' = Returned("set_path_char", "Ok", <<>>)
    /\ calls' = calls + 1
    /\ solves' = <<>>
    /\ UNCHANGED <<maze, start, end, path, start_char, end_char, wall_char,
                   separator, pc, open, closed, current, tie, solved,
                   loaded, expanded>>

set_separator(symbol) ==
    /\ Builder
    /\ separator' = symbol
    /\ ret' = Returned("set_separator", "Ok", <<>>)
    /\ calls' = calls + 1
    /\ solves' = <<>>
    /\ UNCHANGED <<maze, start, end, path, start_char, end_char, wall_char,
                   path_char, pc, open, closed, current, tie, solved,
                   loaded, expanded>>

\* ------------------------------------------------------------------ try_solve

Outcome(res, stored) == [res |-> res, path |-> stored]

\* try_solve with start or end unset.
try_solve_unset ==
    /\ pc = "idle"
    /\ (start = None \/ end = None)
    /\ ret' = Returned("try_solve", "StartEndNotSet", <<>>)
    /\ solves' = Record(Outcome("StartEndNotSet", path))
    /\ UNCHANGED <<mazeFields, pc, open, closed, current, calls, tie, solved,
                   loaded, expanded>>

\* try_solve with start and end set and two of the symbols equal.
try_solve_invalid ==
    /\ pc = "idle"
    /\ start # None /\ end # None
    /\ are_chars_invalid
    /\ ret' = Returned("try_solve", "InvalidCharacters", <<>>)
    /\ solves' = Record(Outcome("InvalidCharacters", path))
    /\ UNCHANGED <<mazeFields, pc, open, closed, current, calls, tie, solved,
                   loaded, expanded>>

\* try_solve up to the first test of the loop: the queue holds the start node.
try_solve_begin ==
    /\ pc = "idle"
    /\ start # None /\ end # None
    /\ ~are_chars_invalid
    /\ LET node == start_node(start[1], end[1])
       IN  open' = <<[item |-> node, priority |-> f_cost(node)]>>
    /\ closed' = {}
    /\ expanded' = <<>>
    /\ current' = None
    /\ pc' = "search"
    /\ ret' = Returned("try_solve", "pending", <<>>)
    /\ UNCHANGED <<mazeFields, calls, tie, solves, solved,
                   loaded>>

\* search_exhausted that also clears the stored path.
search_exhausted_clears ==
    /\ pc = "search"
    /\ open = <<>>
    /\ pc' = "idle"
    /\ closed' = {}
    /\ expanded' = <<>>
    /\ path' = None
    /\ ret' = Returned("try_solve", "MazeIsNotSolvable", <<>>)
    /\ solves' = Record(Outcome("MazeIsNotSolvable", None))
    /\ UNCHANGED <<maze, start, end, start_char, end_char, wall_char, path_char,
                   separator, open, current, calls, tie, solved,
                   loaded>>

\* search_exhausted that starts the search again instead of returning.
search_exhausted_retry ==
    /\ pc = "search"
    /\ open = <<>>
    /\ LET node == start_node(start[1], end[1])
       IN  open' = <<[item |-> node, priority |-> f_cost(node)]>>
    /\ closed' = {}
    /\ expanded' = <<>>
    /\ current' = None
    /\ UNCHANGED <<mazeFields, pc, ret, calls, tie, solves, solved, loaded>>

\* The loop ends with the queue empty.
search_exhausted ==
    /\ pc = "search"
    /\ open = <<>>
    /\ pc' = "idle"
    /\ closed' = {}
    /\ expanded' = <<>>
    /\ ret' = Returned("try_solve", "MazeIsNotSolvable", <<>>)
    /\ solves' = Record(Outcome("MazeIsNotSolvable", path))
    /\ UNCHANGED <<mazeFields, open, current, calls, tie, solved,
                   loaded>>

\* One iteration that pops the node at the end position.
search_found ==
    /\ pc = "search"
    /\ \E i \in pop_choices(open, tie) :
          LET node == open[i].item
          IN  /\ node.position = end[1]
              /\ current' = Some(node)
              /\ path' = Some(chain(node))
              /\ solves' = Record(Outcome("Ok", Some(chain(node))))
    /\ pc' = "idle"
    /\ open' = <<>>
    /\ closed' = {}
    /\ expanded' = <<>>
    /\ ret' = Returned("try_solve", "Ok", <<>>)
    /\ solved' = TRUE
    /\ UNCHANGED <<maze, start, end, start_char, end_char, wall_char, path_char,
                   separator, calls, tie, loaded>>

\* One iteration in which Node::neighbours indexes outside a row.
search_panic ==
    /\ pc = "search"
    /\ \E i \in pop_choices(open, tie) :
          LET node == open[i].item
          IN  /\ node.position # end[1]
              /\ neighbours_panics(node, maze, wall_char)
              /\ current' = Some(node)
    /\ pc' = "panicked"
    /\ ret' = Returned("try_solve", "panic", <<>>)
    /\ UNCHANGED <<mazeFields, open, closed, calls, tie, solves, solved,
                   loaded, expanded>>

\* One iteration that expands the popped node and closes its position.
search_expand ==
    /\ pc = "search"
    /\ \E i \in pop_choices(open, tie) :
          \E node \in {open[i].item}, rest \in {queue_remove(open, i)} :
              /\ node.position # end[1]
              /\ ~neighbours_panics(node, maze, wall_char)
              /\ current' = Some(node)
              /\ \E nbs \in {neighbours(node, maze, wall_char, end[1])} :
                    open' = relax(rest, closed, node, nbs)
              /\ closed' = closed \cup {node.position}
              /\ expanded' = Append(expanded, node)
    /\ UNCHANGED <<mazeFields, pc, ret, calls, tie, solves, solved,
                   loaded>>

\* ------------------------------------------------------------------ get_path

\* get_path that takes the path out of the Maze.
get_path_take ==
    /\ pc = "idle"
    /\ ret' = IF path # None
              THEN Returned("get_path", "Ok", path[1])
              ELSE Returned("get_path", "MazeNotSolved", <<>>)
    /\ path' = None
    /\ UNCHANGED <<maze, start, end, start_char, end_char, wall_char, path_char,
                   separator, pc, open, closed, current, calls, tie, solves,
                   solved,
                   loaded, expanded>>

get_path ==
    /\ pc = "idle"
    /\ ret' = IF path # None
              THEN Returned("get_path", "Ok", path[1])
              ELSE Returned("get_path", "MazeNotSolved", <<>>)
    /\ UNCHANGED <<mazeFields, pc, open, closed, current, calls, tie, solves, solved,
                   loaded, expanded>>

\* ------------------------------------------------------------------ print_maze

\* print_maze: the rows go to standard output, which is not part of the
\* state; the call returns Ok when the grid has a row (of any length).
print_maze ==
    /\ pc = "idle"
    /\ ret' = IF maze # <<>>
              THEN Returned("print_maze", "Ok", <<>>)
              ELSE Returned("print_maze", "MazeIsNotSet", <<>>)
    /\ UNCHANGED <<mazeFields, pc, open, closed, current, calls, tie, solves,
                   solved, loaded, expanded>>

\* ------------------------------------------------------------------ Next

Next ==
    \/ \E file \in FileNames : set_inline(file)
    \/ \E file \in FileNames : set(file)
    \/ \E op \in {"set", "set_inline"} : set_invalid_path(op)
    \/ \E symbol \in Symbols : set_walls_char(symbol)
    \/ \E symbol \in Symbols : set_start_char(symbol)
    \/ \E symbol \in Symbols : set_end_char(symbol)
    \/ \E symbol \in PathSymbols : set_path_char(symbol)
    \/ \E symbol \in Symbols : set_separator(symbol)
    \/ try_solve_unset
    \/ try_solve_invalid
    \/ try_solve_begin
    \/ search_exhausted
    \/ search_found
    \/ search_panic
    \/ search_expand
    \/ get_path
    \/ print_maze

Spec == Init /\ [][Next]_vars

\* One iteration of the loop in try_solve, or its end.
SearchStep ==
    \/ search_exhausted
    \/ search_found
    \/ search_panic
    \/ search_expand

\* try_solve runs its loop without waiting on anything: a call that is in
\* the loop takes the next iteration. Every order of popping equal
\* priorities is one the "any" policy allows.
LiveInit == Init /\ tie = "any"

LiveSpec == LiveInit /\ [][Next]_vars /\ WF_vars(SearchStep)

\* ------------------------------------------------------------------ costs

Positions == (0..MaxCoord) \X (0..MaxCoord)

\* The rows set builds from a file of MaxCoord + 1 lines of MaxCoord + 1
\* characters: the start symbol at s, the end symbol at e, "." elsewhere.
OpenGrid(s, e) ==
    [y \in 1..(MaxCoord + 1) |->
        [x \in 1..(MaxCoord + 1) |->
            IF <<x - 1, y - 1>> = s THEN "S"
            ELSE IF <<x - 1, y - 1>> = e THEN "E"
            ELSE "."]]

\* Maze::new().set(file) for such a file.
HeuristicInit ==
    \E s \in Positions, e \in Positions :
        /\ s # e
        /\ maze = OpenGrid(s, e)
        /\ start = Some(s)
        /\ end = Some(e)
        /\ path = None
        /\ start_char = "S"
        /\ end_char = "E"
        /\ wall_char = "W"
        /\ path_char = "X"
        /\ separator = "\\"
        /\ pc = "idle"
        /\ open = <<>>
        /\ closed = {}
        /\ current = None
        /\ ret = Returned("set", "Ok", <<>>)
        /\ calls = 1
        /\ tie = "any"
        /\ solves = <<>>
        /\ solved = FALSE
        /\ loaded = TRUE
        /\ expanded = <<>>

\* try_solve up to the queue holding the start node, whose h_cost is
\* heuristic(start, end).
HeuristicNext == try_solve_begin

HeuristicSpec == HeuristicInit /\ [][HeuristicNext]_vars

\* ------------------------------------------------------------------ grid facts

\* The rows are all as long as the first one, and there is at least one row.
Rectangular ==
    /\ maze # <<>>
    /\ \A y \in 1..Len(maze) : Len(maze[y]) = Len(maze[1])

InGrid(p) ==
    /\ p[2] >= 0 /\ p[2] < Len(maze)
    /\ p[1] >= 0 /\ p[1] < Len(maze[p[2] + 1])

CellAt(p) == maze[p[2] + 1][p[1] + 1]

GridCells ==
    UNION { { <<x - 1, y - 1>> : x \in 1..Len(maze[y]) } : y \in 1..Len(maze) }

\* Cells inside the grid that do not hold the wall symbol.
FreeCells == {p \in GridCells : CellAt(p) # wall_char}

\* p and q differ by one of the 8 unit offsets.
UnitStep(p, q) ==
    /\ p # q
    /\ Abs(p[1] - q[1]) <= 1
    /\ Abs(p[2] - q[2]) <= 1

StepCost(p, q) == IF p[1] # q[1] /\ p[2] # q[2] THEN 14 ELSE 10

RECURSIVE PathCost(_)
PathCost(seq) ==
    IF Len(seq) <= 1 THEN 0
    ELSE StepCost(seq[1], seq[2]) + PathCost(Tail(seq))

\* seq leads from the start position to the end position by unit steps over
\* free cells.
PathValid(seq) ==
    /\ seq # <<>>
    /\ start # None /\ end # None
    /\ seq[1] = start[1]
    /\ seq[Len(seq)] = end[1]
    /\ \A i \in 1..Len(seq) : seq[i] \in FreeCells
    /\ \A i \in 1..(Len(seq) - 1) : UnitStep(seq[i], seq[i + 1])

MinOf(S) == CHOOSE m \in S : \A n \in S : m <= n

\* One round of relaxation of the costs D, a set of <<cell, cost>> with one
\* pair for each cell reached so far, over the cells in free.
RelaxAll(D, free) ==
    LET cands(c) == {r[2] + StepCost(r[1], c) : r \in {t \in D : UnitStep(t[1], c)}}
                    \cup {r[2] : r \in {t \in D : t[1] = c}}
    IN  { <<c, MinOf(cands(c))>> : c \in {f \in free : cands(f) # {}} }

RECURSIVE RelaxRounds(_, _, _)
RelaxRounds(D, free, n) ==
    IF n = 0 THEN D
    ELSE LET next == RelaxAll(D, free)
         IN  IF next = D THEN D ELSE RelaxRounds(next, free, n - 1)

\* The least cost of a path from start to end over free cells, -1 when
\* there is none.
ShortestCost ==
    LET free == FreeCells
    IN  IF start = None \/ end = None THEN -1
        ELSE IF start[1] \notin free \/ end[1] \notin free THEN -1
        ELSE LET D == RelaxRounds({<<start[1], 0>>}, free, Cardinality(free))
                 hit == {r \in D : r[1] = end[1]}
             IN  IF hit = {} THEN -1 ELSE (CHOOSE r \in hit : TRUE)[2]

\* The positions that unit steps into cells of free lead to from the set R.
RECURSIVE StepsFrom(_, _, _)
StepsFrom(R, free, n) ==
    IF n = 0 THEN R
    ELSE LET next == R \cup {c \in free : \E q \in R : UnitStep(q, c)}
         IN  IF next = R THEN R ELSE StepsFrom(next, free, n - 1)

\* The end position is the start position or is reached from it by unit
\* steps, each into a free cell.
Reachable ==
    /\ start # None /\ end # None
    /\ LET free == FreeCells
       IN  end[1] \in StepsFrom({start[1]}, free, Cardinality(free))

LastSolve == solves[Len(solves)]

TrySolveReturned == ret.op = "try_solve" /\ ret.res # "pending"

\* ------------------------------------------------------------------ claims

\* C1: whenever try_solve returns Ok, the stored path, which get_path then
\* returns, starts at the start position, ends at the end position, moves by
\* one of the 8 unit offsets at each step, and every position on it is a
\* cell of the grid that is not a wall.
C1_ReturnedPathValid ==
    /\ (ret.op = "try_solve" /\ ret.res = "Ok")
          => (path # None /\ PathValid(path[1]))
    /\ (ret.op = "get_path" /\ solves # <<>> /\ LastSolve.res = "Ok")
          => (ret.res = "Ok" /\ PathValid(ret.val))

\* C2: on a rectangular grid, the path of a try_solve that returned Ok costs
\* no more than any path from start to end over free cells.
C2_ReturnedPathShortest ==
    (ret.op = "try_solve" /\ ret.res = "Ok" /\ Rectangular /\ ShortestCost >= 0)
        => PathCost(path[1]) <= ShortestCost

\* Two of the start, end, wall and separator symbols are equal.
SymbolsCoincide ==
    Cardinality({start_char, end_char, wall_char, separator}) < 4

CellsHolding(ch) == {p \in GridCells : CellAt(p) = ch}

\* The first cell holding ch in row-major order: the smallest row, and in
\* that row the smallest column.
FirstRowMajor(ch) ==
    CHOOSE p \in CellsHolding(ch) :
        \A q \in CellsHolding(ch) :
            p[2] < q[2] \/ (p[2] = q[2] /\ p[1] <= q[1])

SolveErrors == {"MazeIsNotSolvable", "StartEndNotSet", "InvalidCharacters"}

\* start and end are cells of the grid that hold the start and end symbols.
PositionsCurrent ==
    /\ start # None /\ end # None
    /\ start[1] \in CellsHolding(start_char)
    /\ end[1] \in CellsHolding(end_char)

\* C3, as stated: with start and end set (to cells holding the symbols) and
\* the four symbols distinct, try_solve returns MazeIsNotSolvable exactly
\* when the end cell is not reachable from the start cell, and Ok in every
\* other case.
C3_UnsolvableIffUnreachable ==
    (TrySolveReturned /\ start # None /\ end # None /\ ~SymbolsCoincide
        /\ PositionsCurrent)
        => IF Reachable THEN ret.res = "Ok"
           ELSE ret.res = "MazeIsNotSolvable"

\* C3, amended: the same on a grid with at least one row whose rows all
\* have the same length.
C3_UnsolvableIffUnreachableRect ==
    (TrySolveReturned /\ start # None /\ end # None /\ ~SymbolsCoincide
        /\ Rectangular)
        => IF Reachable THEN ret.res = "Ok"
           ELSE ret.res = "MazeIsNotSolvable"

\* A solve that stepped diagonally between two walls.
C3_Witness ==
    /\ ret.op = "try_solve" /\ ret.res = "Ok"
    /\ Rectangular /\ ~SymbolsCoincide
    /\ path = Some(<< <<0, 0>>, <<1, 1>> >>)
    /\ CellAt(<<1, 0>>) = wall_char /\ CellAt(<<0, 1>>) = wall_char

\* A solve that found the end walled off.
C3_WitnessUnsolvable ==
    /\ ret.op = "try_solve" /\ ret.res = "MazeIsNotSolvable"
    /\ Rectangular /\ ~SymbolsCoincide
    /\ start[1] \in FreeCells /\ end[1] \in FreeCells

C5_MissingSymbolNotSet ==
    (TrySolveReturned
        /\ (\/ CellsHolding(start_char) = {} \/ CellsHolding(end_char) = {}
            \/ start = None \/ end = None))
        => ret.res = "StartEndNotSet"

\* C6: with start and end set and two of the four symbols equal, a try_solve
\* call returns InvalidCharacters without popping a node and without
\* changing the stored path.
C6_InvalidCharactersFirst ==
    [][(pc = "idle" /\ ret'.op = "try_solve"
          /\ start # None /\ end # None /\ SymbolsCoincide)
        => (/\ ret'.res = "InvalidCharacters"
            /\ pc' = "idle"
            /\ open' = open /\ closed' = closed /\ current' = current
            /\ path' = path)]_vars

C6_Witness ==
    /\ ret.op = "try_solve" /\ ret.res = "InvalidCharacters"
    /\ start # None /\ end # None
    /\ wall_char = separator
    /\ Cardinality({start_char, end_char, wall_char}) = 3
    /\ path # None

\* C7: after a try_solve call that returned an error the Maze holds no path
\* and get_path returns MazeNotSolved.
C7_ErrorLeavesNoPath ==
    /\ (ret.op = "try_solve" /\ ret.res \in SolveErrors) => path = None
    /\ (ret.op = "get_path" /\ solves # <<>> /\ LastSolve.res \in SolveErrors)
          => ret.res = "MazeNotSolved"

\* C8: a get_path call changes no field of the Maze; it returns
\* MazeNotSolved when no try_solve call has returned Ok, and Ok with the
\* stored sequence once one has.
C8_GetPathResult ==
    [][(ret'.op = "get_path")
        => (/\ mazeFields' = mazeFields
            /\ solved => (/\ ret'.res = "Ok"
                          /\ path # None
                          /\ ret'.val = path[1])
            /\ ~solved => ret'.res = "MazeNotSolved")]_vars

C8_Witness ==
    /\ ret.op = "get_path" /\ ret.res = "Ok"
    /\ solved
    /\ Len(ret.val) >= 2

\* C9: no step of try_solve changes the grid, the start and end positions
\* or the symbols, and the stored path changes only in the step that
\* returns Ok.
C9_TrySolveFrame ==
    [][(ret'.op = "try_solve")
        => (/\ <<maze, start, end, start_char, end_char, wall_char,
                 path_char, separator>>'
                  = <<maze, start, end, start_char, end_char, wall_char,
                      path_char, separator>>
            /\ (path' # path => ret'.res = "Ok"))]_vars

\* A try_solve that failed on a Maze holding the path of an earlier solve.
C9_Witness ==
    /\ ret.op = "try_solve" /\ ret.res = "MazeIsNotSolvable"
    /\ path # None

\* C10: whenever the grid holds the start (end) symbol, the start (end)
\* position is the first cell holding it in row-major order.
C10_FirstOccurrence ==
    /\ CellsHolding(start_char) # {}
          => start = Some(FirstRowMajor(start_char))
    /\ CellsHolding(end_char) # {}
          => end = Some(FirstRowMajor(end_char))

\* Two start cells and two end cells, the first in row-major order not the
\* first in column-major order.
C10_Witness ==
    /\ Cardinality(CellsHolding(start_char)) >= 2
    /\ Cardinality(CellsHolding(end_char)) >= 2
    /\ start = Some(<<1, 0>>)
    /\ <<0, 1>> \in CellsHolding(start_char)
    /\ end = Some(<<2, 0>>)

\* C11, as stated: a try_solve call with start and end at the same position
\* returns Ok and stores the one-position path [start], of cost 0; and the
\* path of a try_solve that returned Ok has length 1 exactly when start
\* equals end.
C11_SamePositionSolves ==
    /\ (TrySolveReturned /\ start # None /\ start = end)
          => (/\ ret.res = "Ok"
              /\ path = Some(<<start[1]>>)
              /\ PathCost(path[1]) = 0)
    /\ (ret.op = "try_solve" /\ ret.res = "Ok")
          => (Len(path[1]) = 1 <=> start = end)

\* C11, amended: the same when the start, end, wall and separator symbols
\* are pairwise distinct.
C11_SamePositionSolvesDistinct ==
    /\ (TrySolveReturned /\ start # None /\ start = end /\ ~SymbolsCoincide)
          => (/\ ret.res = "Ok"
              /\ path = Some(<<start[1]>>)
              /\ PathCost(path[1]) = 0)
    /\ (ret.op = "try_solve" /\ ret.res = "Ok")
          => (Len(path[1]) = 1 <=> start = end)

\* A solve that returned Ok with start and end at the same position.
C11_Witness ==
    /\ ret.op = "try_solve" /\ ret.res = "Ok"
    /\ start # None /\ start = end
    /\ ~SymbolsCoincide
    /\ path = Some(<<start[1]>>)

\* A solve over several cells: the path is longer than one position.
C11_WitnessLonger ==
    /\ ret.op = "try_solve" /\ ret.res = "Ok"
    /\ start # end
    /\ Len(path[1]) >= 2

\* try_solve has returned Ok or MazeIsNotSolvable.
SearchOutcome ==
    /\ pc = "idle"
    /\ ret.op = "try_solve"
    /\ ret.res \in {"Ok", "MazeIsNotSolvable"}

\* C12: on a grid with rows of equal length, a try_solve call that entered
\* the search loop (start and end set, symbols distinct) eventually returns
\* Ok or MazeIsNotSolvable; the loop is left only with one of these two
\* results, and searching starts again only as a new call, from a queue
\* holding the start node and an empty closed set.
C12_SearchTerminates ==
    /\ (pc = "search" /\ Rectangular) ~> SearchOutcome
    /\ [][(pc = "search" /\ pc' # "search" /\ Rectangular) => SearchOutcome']_vars
    /\ [][(SearchOutcome /\ pc' = "search")
            => (/\ ret'.res = "pending"
                /\ Len(open') = 1
                /\ open'[1].item.position = start[1]
                /\ closed' = {})]_vars

\* A search of several iterations that returned Ok, and is then started
\* again by a new call.
C12_Witness ==
    /\ pc = "search"
    /\ Rectangular
    /\ Len(solves) = 1 /\ solves[1].res = "Ok" /\ Len(solves[1].path[1]) >= 5
    /\ closed # {}

\* The grid has 3 rows of 3 cells and none of them holds the wall symbol.
OpenThreeByThree ==
    /\ Len(maze) = 3
    /\ \A y \in 1..3 : Len(maze[y]) = 3
    /\ FreeCells = GridCells

\* C13: on a 3x3 grid without walls, with start at (0,0), end at (2,2) and
\* the symbols pairwise distinct, try_solve returns Ok and stores the path
\* [(0,0),(1,1),(2,2)]; its steps cost 28 in total, which is also the g_cost
\* of the node popped at the end position.
C13_DiagonalOfThree ==
    (TrySolveReturned /\ OpenThreeByThree /\ ~SymbolsCoincide
        /\ start = Some(<<0, 0>>) /\ end = Some(<<2, 2>>))
        => (/\ ret.res = "Ok"
            /\ path = Some(<< <<0, 0>>, <<1, 1>>, <<2, 2>> >>)
            /\ PathCost(path[1]) = 28
            /\ current # None /\ current[1].g_cost = 28)

C13_Witness ==
    /\ ret.op = "try_solve" /\ ret.res = "Ok"
    /\ OpenThreeByThree /\ ~SymbolsCoincide
    /\ start = Some(<<0, 0>>) /\ end = Some(<<2, 2>>)
    /\ path = Some(<< <<0, 0>>, <<1, 1>>, <<2, 2>> >>)
    /\ current[1].g_cost = 28

\* C14: print_maze returns MazeIsNotSet on a Maze on which neither set nor
\* set_inline has been called, and returns Ok only on a Maze whose grid one
\* of them has loaded.
C14_PrintMazeNotSet ==
    (ret.op = "print_maze")
        => (/\ ~loaded => ret.res = "MazeIsNotSet"
            /\ ret.res = "Ok" => loaded)

\* C15: in every iteration of the search loop the node popped from the
\* queue has the least f_cost of the nodes in the queue, and of the nodes
\* with that f_cost it has the least h_cost.
C15_PopsLeastCost ==
    [][(pc = "search" /\ open # <<>>)
        => \A j \in 1..Len(open) :
              \/ f_cost(current'[1]) < f_cost(open[j].item)
              \/ /\ f_cost(current'[1]) = f_cost(open[j].item)
                 /\ current'[1].h_cost <= open[j].item.h_cost]_vars

\* The positions of the entries of the queue q.
QueuedPositions(q) == {q[j].item.position : j \in 1..Len(q)}

\* The positions of the nodes popped and expanded so far.
ExpandedPositions == {expanded[k].position : k \in 1..Len(expanded)}

\* C16: during a solve the closed set is the set of positions popped and
\* expanded so far, no position has been popped and expanded twice, and no
\* closed position is queued; the position of a popped node is not in the
\* closed set, and an iteration that expands it adds just that position to
\* the closed set.
C16_ClosedNeverReopened ==
    /\ [](pc = "search"
            => (/\ closed = ExpandedPositions
                /\ Cardinality(closed) = Len(expanded)
                /\ QueuedPositions(open) \cap closed = {}))
    /\ [][(pc = "search" /\ open # <<>>)
            => (/\ current'[1].position \notin closed
                /\ pc' = "search"
                      => (/\ closed \subseteq closed'
                          /\ closed' = closed \cup {current'[1].position}))]_vars

\* The node just expanded offers a cheaper route to a neighbour that was
\* closed with a higher g_cost, and the neighbour has not been queued again.
C16_Witness ==
    /\ pc = "search" /\ current # None
    /\ \E k \in 1..Len(expanded) :
          /\ UnitStep(current[1].position, expanded[k].position)
          /\ current[1].g_cost
                + StepCost(current[1].position, expanded[k].position)
                < expanded[k].g_cost
          /\ expanded[k].position \in closed
          /\ expanded[k].position \notin QueuedPositions(open)

\* The neighbours generated when node is expanded on the current grid.
Candidates(node) ==
    LET nbs == neighbours(node, maze, wall_char, end[1])
    IN  {nbs[k] : k \in 1..Len(nbs)}

\* The node stored in an entry costs less than the candidate c: its f_cost
\* is lower, or equal with a lower h_cost.
StoredIsBetter(entry, c) ==
    \/ f_cost(entry.item) < f_cost(c)
    \/ (f_cost(entry.item) = f_cost(c) /\ entry.item.h_cost < c.h_cost)

\* C17: when the node popped in an iteration generates a neighbour whose
\* position has a queue entry holding a node that costs less than the
\* neighbour, the iteration leaves that entry as it was: the same priority
\* and the same node, with its g_cost and its predecessor.
C17_BetterEntryKept ==
    [][(pc = "search" /\ pc' = "search")
        => \A c \in Candidates(current'[1]) :
              \A j \in 1..Len(open) :
                 (open[j].item.position = c.position /\ StoredIsBetter(open[j], c))
                    => \E k \in 1..Len(open') : open'[k] = open[j]]_vars

\* The node just expanded generated a neighbour that costs more than the
\* node queued for its position, which another node had queued.
C17_Witness ==
    /\ pc = "search" /\ current # None
    /\ \E c \in Candidates(current[1]) :
          \E j \in 1..Len(open) :
             /\ open[j].item.position = c.position
             /\ StoredIsBetter(open[j], c)
             /\ open[j].item.g_cost < c.g_cost
             /\ open[j].item.previous # None
             /\ open[j].item.previous[1].position # current[1].position

\* C18: when the node popped in an iteration generates a neighbour whose
\* position has a queue entry holding a node that does not cost less than
\* the neighbour, then after the iteration the entry for that position
\* holds the new node: its g_cost and f_cost are the neighbour's, its
\* priority is that f_cost, and its predecessor is the popped node.
C18_EntryReplaced ==
    [][(pc = "search" /\ pc' = "search")
        => \A c \in Candidates(current'[1]) :
              \A j \in 1..Len(open) :
                 (open[j].item.position = c.position /\ ~StoredIsBetter(open[j], c))
                    => \E k \in 1..Len(open') :
                          /\ open'[k].item.position = c.position
                          /\ open'[k].item.g_cost = c.g_cost
                          /\ f_cost(open'[k].item) = f_cost(c)
                          /\ open'[k].priority = f_cost(c)
                          /\ open'[k].item.previous = Some(current'[1])]_vars

\* The absolute coordinate differences between position p and the end.
Dx(p) == Abs(end[1][1] - p[1])

Dy(p) == Abs(end[1][2] - p[2])

OctileCost(p) ==
    IF Dx(p) < Dy(p)
    THEN 14 * Dx(p) + 10 * (Dy(p) - Dx(p))
    ELSE 14 * Dy(p) + 10 * (Dx(p) - Dy(p))

\* C20: on a wall-free grid the least cost of a path from the start to the
\* end is OctileCost (measured from the corner (0,0) and along the long
\* diagonals), and for a diagonal displacement of 8 or more in both
\* coordinates the h_cost of the start node is greater than that cost.
C20_HeuristicOverestimates ==
    (pc = "search")
        => (/\ (start[1] = <<0, 0>> \/ (Dx(start[1]) = Dy(start[1]) /\ Dx(start[1]) >= 8))
                  => ShortestCost = OctileCost(start[1])
            /\ (Dx(start[1]) = Dy(start[1]) /\ Dx(start[1]) >= 8)
                  => open[1].item.h_cost > OctileCost(start[1]))

\* The displacement (8, 8): h_cost 113 against a path of 8 diagonal steps,
\* which costs 112.
C20_Witness ==
    /\ pc = "search"
    /\ Dx(start[1]) = 8 /\ Dy(start[1]) = 8
    /\ open[1].item.h_cost = 113
    /\ OctileCost(start[1]) = 112
    /\ ShortestCost = 112

\* The entries of the queue q that the node n queued or updated: their
\* stored node has n as its predecessor.
QueuedBy(q, n) == {j \in 1..Len(q) : q[j].item.previous = Some(n)}

\* C21: every node generated when a popped node n is expanded, and every
\* node the iteration stores in the queue with n as its predecessor, has
\* the g_cost of n plus 14 when its position differs from the position of n
\* by exactly 1 in both coordinates, and plus 10 when it differs in exactly
\* one coordinate (by 1).
C21_StepCostAdded ==
    [][(pc = "search" /\ pc' = "search")
        => LET n == current'[1]
               Step(p) ==
                   IF Abs(p[1] - n.position[1]) = 1 /\ Abs(p[2] - n.position[2]) = 1
                   THEN 14
                   ELSE IF Abs(p[1] - n.position[1]) + Abs(p[2] - n.position[2]) = 1
                   THEN 10
                   ELSE 0
           IN  /\ \A c \in Candidates(n) :
                     /\ Step(c.position) # 0
                     /\ c.g_cost = n.g_cost + Step(c.position)
               /\ \A j \in QueuedBy(open', n) :
                     /\ Step(open'[j].item.position) # 0
                     /\ open'[j].item.g_cost
                           = n.g_cost + Step(open'[j].item.position)]_vars

\* A node other than the start node has been expanded and has queued a
\* diagonal neighbour on each side (x + 1 and x - 1) and a straight one.
C21_Witness ==
    /\ pc = "search" /\ current # None
    /\ current[1].g_cost > 0
    /\ \E i, j, k \in QueuedBy(open, current[1]) :
          LET n == current[1]
          IN  /\ open[i].item.position[1] = n.position[1] + 1
              /\ open[i].item.position[2] # n.position[2]
              /\ open[i].item.g_cost = n.g_cost + 14
              /\ open[j].item.position[1] = n.position[1] - 1
              /\ open[j].item.position[2] # n.position[2]
              /\ open[j].item.g_cost = n.g_cost + 14
              /\ open[k].item.position[1] = n.position[1]
              /\ open[k].item.g_cost = n.g_cost + 10

\* C22: when try_solve begins the search, the queue holds exactly one
\* entry: its node is at the recorded start position, has g_cost 0, an
\* h_cost that is the integer part of the root of (10*dx)^2 + (10*dy)^2 for
\* the displacement from start to end, and no predecessor; its priority is
\* that h_cost; the closed set is empty.
C22_SearchBeginsWithStart ==
    [][(pc = "idle" /\ pc' = "search")
        => (/\ Len(open') = 1
            /\ closed' = {}
            /\ LET node == open'[1].item
                   c == (10 * Dx(start[1])) * (10 * Dx(start[1]))
                        + (10 * Dy(start[1])) * (10 * Dy(start[1]))
               IN  /\ node.position = start[1]
                   /\ node.g_cost = 0
                   /\ node.h_cost >= 0
                   /\ node.h_cost * node.h_cost <= c
                   /\ c < (node.h_cost + 1) * (node.h_cost + 1)
                   /\ node.previous = None
                   /\ open'[1].priority = node.h_cost)]_vars

\* A search has just begun, before its first iteration, from a start three
\* columns and two rows away from the end: the h_cost and the priority are
\* 36, the integer part of the root of 1300.
C22_Witness ==
    /\ pc = "search" /\ current = None /\ expanded = <<>>
    /\ Dx(start[1]) = 3 /\ Dy(start[1]) = 2
    /\ Len(open) = 1
    /\ open[1].item.position = start[1]
    /\ open[1].item.g_cost = 0
    /\ open[1].item.h_cost = 36
    /\ open[1].priority = 36
    /\ closed = {}

\* C23: on a grid whose rows all have the same length, expanding a node
\* never reads a cell outside the grid (no index panic), every neighbour it
\* generates lies inside the grid, and every position in the queue lies
\* inside the grid: 0 <= x < width and 0 <= y < height.
C23_SearchStaysInGrid ==
    /\ [][(Rectangular /\ pc = "search" /\ open # <<>>)
            => (/\ pc' # "panicked"
                /\ pc' = "search"
                      => \A c \in Candidates(current'[1]) : InGrid(c.position))]_vars
    /\ [](Rectangular /\ pc = "search"
            => \A j \in 1..Len(open) : InGrid(open[j].item.position))

\* C24: during a search the priority of every queue entry is the g_cost
\* plus the h_cost of the node the entry stores, and that h_cost is the
\* heuristic of the node's position: the integer part of the root of
\* (10*dx)^2 + (10*dy)^2 for its displacement from the end.
C24_PriorityIsStoredCost ==
    (pc = "search")
        => \A j \in 1..Len(open) :
              LET node == open[j].item
                  c == (10 * Dx(node.position)) * (10 * Dx(node.position))
                       + (10 * Dy(node.position)) * (10 * Dy(node.position))
              IN  /\ open[j].priority = node.g_cost + node.h_cost
                  /\ node.h_cost >= 0
                  /\ node.h_cost * node.h_cost <= c
                  /\ c < (node.h_cost + 1) * (node.h_cost + 1)

\* C25: the recorded start position, when set, is a cell of the current
\* grid holding the current start symbol, and the recorded end position,
\* when set, is a cell holding the current end symbol; when the grid has
\* no cell holding one of the two symbols that position is unset, and a
\* try_solve call then returns StartEndNotSet.
C25_PositionsFollowGrid ==
    /\ start # None => start[1] \in CellsHolding(start_char)
    /\ end # None => end[1] \in CellsHolding(end_char)
    /\ CellsHolding(start_char) = {} => start = None
    /\ CellsHolding(end_char) = {} => end = None
    /\ (ret.op = "try_solve"
          /\ (CellsHolding(start_char) = {} \/ CellsHolding(end_char) = {}))
          => ret.res = "StartEndNotSet"

\* C26: whenever get_path returns Ok, the path it returns is a valid path
\* for the Maze as it is at that call: it starts at the recorded start,
\* ends at the recorded end, and moves by unit steps over cells of the
\* current grid that do not hold the current wall symbol.
C26_GetPathCurrent ==
    (ret.op = "get_path" /\ ret.res = "Ok")
        => (start # None /\ end # None /\ PathValid(ret.val))

\* C27: at the start of every iteration of the search loop no two entries
\* of the queue hold the same position, and no position of a queue entry
\* is in the closed set.
C27_OneEntryPerPosition ==
    (pc = "search")
        => (/\ \A i, j \in 1..Len(open) :
                  open[i].item.position = open[j].item.position => i = j
            /\ \A j \in 1..Len(open) : open[j].item.position \notin closed)

\* An iteration has pushed a node for a position that was already queued:
\* the queue still holds one entry for it, now under the new priority, next
\* to other entries and with positions closed.
C27_Witness ==
    /\ pc = "search" /\ current # None
    /\ Cardinality(closed) >= 2
    /\ Len(open) >= 3
    /\ \E j \in 1..Len(open) :
          /\ open[j].priority # f_cost(open[j].item)
          /\ \E c \in Candidates(current[1]) :
                /\ c.position = open[j].item.position
                /\ f_cost(c) = open[j].priority

\* The predecessor links from node lead to a node at the start position
\* that has g_cost 0 and no predecessor, each link joins two positions one
\* unit step apart, and each node on the way has the g_cost of its
\* predecessor plus the cost of the step between them.
RECURSIVE ChainSound(_)
ChainSound(node) ==
    IF node.previous = None
    THEN node.position = start[1] /\ node.g_cost = 0
    ELSE LET prev == node.previous[1]
         IN  /\ UnitStep(prev.position, node.position)
             /\ node.g_cost = prev.g_cost + StepCost(prev.position, node.position)
             /\ ChainSound(prev)

\* C28: the predecessor chain of every node in the queue, and of the node
\* popped at the end position, leads to a node at the start position with
\* g_cost 0 and no predecessor over links between 8-adjacent positions, and
\* the node's g_cost is the sum of the step costs (10 or 14) along the chain.
C28_ChainsLeadToStart ==
    /\ [](pc = "search"
            => \A j \in 1..Len(open) :
                  /\ ChainSound(open[j].item)
                  /\ open[j].item.g_cost = PathCost(chain(open[j].item)))
    /\ [][(pc = "search" /\ pc' = "idle" /\ ret'.res = "Ok")
            => (/\ ChainSound(current'[1])
                /\ current'[1].g_cost = PathCost(chain(current'[1])))]_vars

\* A queued node three or more links from the start over both kinds of
\* step, in an entry whose priority a later push has changed.
C28_Witness ==
    /\ pc = "search"
    /\ \E j \in 1..Len(open) :
          LET node == open[j].item
              seq == chain(node)
          IN  /\ Len(seq) >= 4
              /\ seq[1] = start[1]
              /\ \E a, b \in 1..(Len(seq) - 1) :
                    /\ StepCost(seq[a], seq[a + 1]) = 14
                    /\ StepCost(seq[b], seq[b + 1]) = 10
              /\ node.g_cost = PathCost(seq)
              /\ open[j].priority # f_cost(node)

\* C29: the path stored by a try_solve that returned Ok holds no position
\* more than once.
C29_PathWithoutRepeats ==
    (ret.op = "try_solve" /\ ret.res = "Ok")
        => (/\ path # None
            /\ \A i, j \in 1..Len(path[1]) : path[1][i] = path[1][j] => i = j)

\* A solve has returned a path of five or more positions, two of them in
\* the same row and not next to each other on the path: the positions are
\* pairwise different.
C29_Witness ==
    /\ ret.op = "try_solve" /\ ret.res = "Ok"
    /\ path # None
    /\ Len(path[1]) >= 5
    /\ \E i, j \in 1..Len(path[1]) : i + 1 < j /\ path[1][i][2] = path[1][j][2]
    /\ Cardinality({path[1][i] : i \in 1..Len(path[1])}) = Len(path[1])

\* C30: during one solve, an iteration never leaves a position that was
\* queued before it queued under a greater priority number (f_cost) than
\* it had.
C30_PriorityNeverIncreases ==
    [][(pc = "search" /\ pc' = "search")
        => \A j \in 1..Len(open) : \A k \in 1..Len(open') :
              open'[k].item.position = open[j].item.position
                 => open'[k].priority <= open[j].priority]_vars

====
